---- MODULE Spec2Model ----
(***************************************************************************)
(* A model of advanced-vector/vector.h: RawMemory<T> (a block of raw       *)
(* storage) and Vector<T> (a live prefix [0, size) inside a block).        *)
(*                                                                         *)
(* The heap maps an address to the slots of the block allocated there      *)
(* (<<>> when no block is allocated at that address).  A slot is Raw       *)
(* (storage without an object) or holds the value of a live object.        *)
(* Every operation of Vector is one action.  Its inputs are the operands   *)
(* and a fault f: -1 makes operator new throw std::bad_alloc, and f > 0     *)
(* makes the f-th element operation of the call that is able to throw      *)
(* (a constructor or an assignment of T) throw.                            *)
(***************************************************************************)
EXTENDS Integers, Sequences, FiniteSets, TLC

\* ------------------------------------------------------------- bounds
HeapCells == 6      \* elements of storage the heap holds, one vector in use
PairCells == 5      \* elements of storage the heap holds, two vectors in use
AllocCells == 3     \* elements of storage the heap holds, bad_alloc the only fault
PushPopCells == 24  \* elements of storage the heap holds, pushes then pops
NumAddrs  == 3      \* distinct block addresses
MaxN      == 3      \* largest n passed to Vector(n), Reserve(n), Resize(n)
MaxFault  == 3      \* largest index of the element operation made to throw

\* ------------------------------------------------------------- values
NULL      == 0      \* nullptr
Raw       == -1     \* a slot of raw storage: no object lives there
ValueInit == 0      \* T(): the value-initialized element; also a moved-from one
Values    == {1}    \* the values callers pass in
Addrs     == 1..NumAddrs
Vecs      == {"a", "b"}

\* T's compile-time traits: std::is_nothrow_move_constructible_v<T> and
\* std::is_copy_constructible_v<T>.  Three element types: one that is
\* copyable and moves without throwing, one that is copyable and whose move
\* can throw, and a move-only one whose move can throw.
Traits == {[nothrowMove |-> TRUE,  copyable |-> TRUE],
           [nothrowMove |-> FALSE, copyable |-> TRUE],
           [nothrowMove |-> FALSE, copyable |-> FALSE]}

VARIABLES
    heap,      \* [Addrs -> Seq(slot)]: the blocks obtained from operator new
    vec,       \* [Vecs -> [alive, buf, cap, size]]: the Vector objects
    traits,    \* the element type's traits, fixed for a run
    env,       \* the run's setting: the heap's size, the vectors in use, the
               \* faults, whether callers pass references to a vector's own elements
    last       \* what the last call was and what it did

vars == <<heap, vec, traits, env, last>>

\* ------------------------------------------------------------- raw storage
IsLive(s) == s # Raw

\* The slot at 0-based index i of the block at p (Raw outside any block).
Slot(h, p, i) ==
    IF p \in Addrs /\ i >= 0 /\ i < Len(h[p]) THEN h[p][i + 1] ELSE Raw

Put(h, p, i, v) ==
    IF p \in Addrs /\ i >= 0 /\ i < Len(h[p]) THEN [h EXCEPT ![p][i + 1] = v] ELSE h

RECURSIVE SumLen(_, _)
SumLen(h, S) ==
    IF S = {} THEN 0
    ELSE LET p == CHOOSE q \in S : TRUE IN Len(h[p]) + SumLen(h, S \ {p})

UsedCells(h) == SumLen(h, Addrs)

LiveCount(h, p) ==
    IF p \in Addrs THEN Cardinality({i \in 1..Len(h[p]) : IsLive(h[p][i])}) ELSE 0

FreeAddrs(h) == {p \in Addrs : h[p] = <<>>}

\* operator new can serve a request for n elements.
CanAllocate(h, n) == FreeAddrs(h) # {} /\ UsedCells(h) + n <= env.room

\* The context threaded through a call: the heap, the countdown to the
\* element operation that throws (0: none), whether an exception is in
\* flight and why, what the call did to elements so far, and the iterator
\* (block address and index) the call returns, if it returns one.
Ctx(h, f) ==
    [h |-> h, k |-> IF f > 0 THEN f ELSE 0, thrown |-> "none",
     ctor |-> 0, dtor |-> 0, asg |-> 0, lost |-> 0, dbl |-> 0, dfree |-> 0,
     it |-> [buf |-> NULL, idx |-> 0]]

\* return p + i.
Return(c, p, i) == [c EXCEPT !.it = [buf |-> p, idx |-> i]]

\* RawMemory::Allocate (vector.h:86): nullptr for n = 0, a fresh block of n
\* raw slots otherwise.  Returns <<context, address>>.
Allocate(c, n, af) ==
    IF n = 0 THEN <<c, NULL>>
    ELSE IF af \/ ~CanAllocate(c.h, n) THEN <<[c EXCEPT !.thrown = "bad_alloc"], NULL>>
    ELSE LET p == CHOOSE q \in FreeAddrs(c.h) : \A r \in FreeAddrs(c.h) : q <= r
         IN <<[c EXCEPT !.h[p] = [i \in 1..n |-> Raw]], p>>

\* RawMemory::Deallocate (vector.h:91): operator delete.  Objects still
\* living in the block are lost (never destroyed); releasing an address that
\* holds no block is a double free.
Deallocate(c, p) ==
    IF p = NULL THEN c
    ELSE IF c.h[p] = <<>> THEN [c EXCEPT !.dfree = @ + 1]
    ELSE [c EXCEPT !.lost = @ + LiveCount(c.h, p), !.h[p] = <<>>]

\* ------------------------------------------------------------- element operations
\* Can this kind of construction throw?  A copy and a construction from
\* arguments can; a move can unless T is nothrow move constructible.
CanThrow(kind) == IF kind = "move" THEN ~traits.nothrowMove ELSE TRUE

\* The next throwing-capable element operation throws.
Throws(c, can) == can /\ c.k = 1
Tick(c, can) == IF can /\ c.k > 0 THEN [c EXCEPT !.k = @ - 1] ELSE c
Raise(c) == [c EXCEPT !.k = 0, !.thrown = "throw"]

\* Placement new of value v at slot i of block p (no throw).
ConstructAt(c, p, i, v) ==
    [c EXCEPT !.h = Put(@, p, i, v), !.ctor = @ + 1,
              !.lost = @ + (IF IsLive(Slot(c.h, p, i)) THEN 1 ELSE 0)]

\* std::destroy_at.
DestroyAt(c, p, i) ==
    IF IsLive(Slot(c.h, p, i))
    THEN [c EXCEPT !.h = Put(@, p, i, Raw), !.dtor = @ + 1]
    ELSE [c EXCEPT !.dbl = @ + 1]

\* std::destroy_n(p + i, n).
RECURSIVE DestroyN(_, _, _, _)
DestroyN(c, p, i, n) ==
    IF n <= 0 THEN c ELSE DestroyN(DestroyAt(c, p, i), p, i + 1, n - 1)

\* A temporary T on the stack: constructed and destroyed by the call.
Temporary(c) == [c EXCEPT !.ctor = @ + 1, !.dtor = @ + 1]

\* n successful constructions dp[di + j] from sp[si + j], j ascending; a move
\* leaves its source moved-from.
RECURSIVE ConstructRange(_, _, _, _, _, _, _)
ConstructRange(c, sp, si, dp, di, n, byMove) ==
    IF n <= 0 THEN c
    ELSE LET c1 == ConstructAt(c, dp, di, Slot(c.h, sp, si))
             c2 == IF byMove THEN [c1 EXCEPT !.h = Put(@, sp, si, ValueInit)] ELSE c1
         IN ConstructRange(c2, sp, si + 1, dp, di + 1, n - 1, byMove)

\* An uninitialized_copy_n / uninitialized_move_n that leaves the objects it
\* built in place when a construction throws.
UninitializedN_NoRollback(c, sp, si, n, dp, di, byMove) ==
    LET can == CanThrow(IF byMove THEN "move" ELSE "copy")
        j   == IF can /\ c.k >= 1 /\ c.k <= n THEN c.k ELSE 0
    IN IF j = 0
       THEN LET d == ConstructRange(c, sp, si, dp, di, n, byMove)
            IN IF can /\ d.k > 0 THEN [d EXCEPT !.k = @ - n] ELSE d
       ELSE Raise(ConstructRange(c, sp, si, dp, di, j - 1, byMove))

\* std::uninitialized_copy_n / std::uninitialized_move_n: when the j-th
\* construction throws, the j - 1 objects already built in the destination
\* are destroyed and the exception is rethrown.
UninitializedN(c, sp, si, n, dp, di, byMove) ==
    LET can == CanThrow(IF byMove THEN "move" ELSE "copy")
        j   == IF can /\ c.k >= 1 /\ c.k <= n THEN c.k ELSE 0
    IN IF j = 0
       THEN LET d == ConstructRange(c, sp, si, dp, di, n, byMove)
            IN IF can /\ d.k > 0 THEN [d EXCEPT !.k = @ - n] ELSE d
       ELSE Raise(DestroyN(ConstructRange(c, sp, si, dp, di, j - 1, byMove), dp, di, j - 1))

\* A migration policy that always moves.
MigrateAlwaysMove == TRUE

\* Vector::UninitializedMoveOrCopyN / UninitializedMoveOrCopy
\* (vector.h:312-328): move when T's move construction cannot throw or T
\* cannot be copied, copy otherwise.
MigrateByMove == traits.nothrowMove \/ ~traits.copyable

UninitializedMoveOrCopyN(c, sp, si, n, dp, di) ==
    UninitializedN(c, sp, si, n, dp, di, MigrateByMove)

\* std::uninitialized_value_construct_n(p + i, n): T() can throw; the objects
\* already built are destroyed before the exception leaves.
RECURSIVE ValueConstructRange(_, _, _, _)
ValueConstructRange(c, p, i, n) ==
    IF n <= 0 THEN c
    ELSE ValueConstructRange(ConstructAt(c, p, i, ValueInit), p, i + 1, n - 1)

\* An uninitialized_value_construct_n that leaves the objects it built in
\* place when a construction throws.
UninitializedValueConstructN_NoRollback(c, p, i, n) ==
    LET j == IF c.k >= 1 /\ c.k <= n THEN c.k ELSE 0
    IN IF j = 0
       THEN LET d == ValueConstructRange(c, p, i, n)
            IN IF d.k > 0 THEN [d EXCEPT !.k = @ - n] ELSE d
       ELSE Raise(ValueConstructRange(c, p, i, j - 1))

UninitializedValueConstructN(c, p, i, n) ==
    LET j == IF c.k >= 1 /\ c.k <= n THEN c.k ELSE 0
    IN IF j = 0
       THEN LET d == ValueConstructRange(c, p, i, n)
            IN IF d.k > 0 THEN [d EXCEPT !.k = @ - n] ELSE d
       ELSE Raise(DestroyN(ValueConstructRange(c, p, i, j - 1), p, i, j - 1))

\* dp[di] = sp[si] (copy assignment) or dp[di] = std::move(sp[si]).
AssignAt(c, sp, si, dp, di, byMove) ==
    LET h1 == Put(c.h, dp, di, Slot(c.h, sp, si))
        h2 == IF byMove /\ ~(sp = dp /\ si = di) THEN Put(h1, sp, si, ValueInit) ELSE h1
    IN [c EXCEPT !.h = h2, !.asg = @ + 1]

\* n assignments dp[di + j*step] = sp[si + j*step], j = 0, 1, ...; any of them
\* can throw, and nothing is undone when one does.
RECURSIVE AssignRange(_, _, _, _, _, _, _, _)
AssignRange(c, sp, si, dp, di, n, step, byMove) ==
    IF n <= 0 THEN c
    ELSE IF Throws(c, TRUE) THEN Raise(c)
    ELSE AssignRange(AssignAt(Tick(c, TRUE), sp, si, dp, di, byMove),
                     sp, si + step, dp, di + step, n - 1, step, byMove)

\* ------------------------------------------------------------- Vector
NoVector == [alive |-> FALSE, buf |-> NULL, cap |-> 0, size |-> 0]
Vec(buf, cap, size) == [alive |-> TRUE, buf |-> buf, cap |-> cap, size |-> size]

\* What a call returns: the vectors and the context after it.
Ret(vs, c) == [vs |-> vs, c |-> c]
Failed(c) == c.thrown # "none"

\* Vector() = default (vector.h:129).
DefaultConstruct(vs, c, v) == Ret([vs EXCEPT ![v] = Vec(NULL, 0, 0)], c)

\* explicit Vector(size_t size) (vector.h:131-136).
SizeConstruct(vs, c, v, n, af) ==
    LET al == Allocate(c, n, af)
        c1 == al[1]
        p  == al[2]
    IN IF Failed(c1) THEN Ret(vs, c1)
       ELSE LET c2 == UninitializedValueConstructN(c1, p, 0, n)
            IN IF Failed(c2) THEN Ret(vs, Deallocate(c2, p))
               ELSE Ret([vs EXCEPT ![v] = Vec(p, n, n)], c2)

\* A copy constructor that takes the source's block instead of copying into
\* a block of its own.
CopyConstruct_Shallow(vs, c, v, o, af) ==
    Ret([vs EXCEPT ![v] = Vec(vs[o].buf, vs[o].cap, vs[o].size)], c)

\* Vector(const Vector& other) (vector.h:138-143).
CopyConstruct(vs, c, v, o, af) ==
    LET src == vs[o]
        al  == Allocate(c, src.size, af)
        c1  == al[1]
        p   == al[2]
    IN IF Failed(c1) THEN Ret(vs, c1)
       ELSE LET c2 == UninitializedN(c1, src.buf, 0, src.size, p, 0, FALSE)
            IN IF Failed(c2) THEN Ret(vs, Deallocate(c2, p))
               ELSE Ret([vs EXCEPT ![v] = Vec(p, src.size, src.size)], c2)

\* A move constructor that forgets other.size_ = 0.
MoveConstruct_KeepSize(vs, c, v, o) ==
    Ret([vs EXCEPT ![v] = Vec(vs[o].buf, vs[o].cap, vs[o].size),
                   ![o] = Vec(NULL, 0, vs[o].size)], c)

\* Vector(Vector&& other) noexcept (vector.h:145-149), with
\* RawMemory(RawMemory&&) (vector.h:22-28).
MoveConstruct(vs, c, v, o) ==
    Ret([vs EXCEPT ![v] = Vec(vs[o].buf, vs[o].cap, vs[o].size),
                   ![o] = Vec(NULL, 0, 0)], c)

\* ~Vector (vector.h:183-185) followed by ~RawMemory (vector.h:44-46).
Destructor(vs, c, v) ==
    Ret([vs EXCEPT ![v] = NoVector],
        Deallocate(DestroyN(c, vs[v].buf, 0, vs[v].size), vs[v].buf))

\* Vector::Swap (vector.h:286-289) with RawMemory::Swap (vector.h:67-70).
Swap(vs, c, v, o) == Ret([vs EXCEPT ![v] = vs[o], ![o] = vs[v]], c)

\* A Reserve that destroys the old elements before it asks for the new block.
Reserve_DestroyFirst(vs, c, v, n, af) ==
    LET w == vs[v]
    IN IF n <= w.cap THEN Ret(vs, c)
       ELSE LET c0 == DestroyN(c, w.buf, 0, w.size)
                al == Allocate(c0, n, af)
                c1 == al[1]
                p  == al[2]
            IN IF Failed(c1) THEN Ret(vs, c1)
               ELSE Ret([vs EXCEPT ![v] = Vec(p, n, 0)], Deallocate(c1, w.buf))

\* A Reserve that asks for one element more than it was told.
Reserve_Roomy(vs, c, v, n, af) ==
    LET w == vs[v]
    IN IF n <= w.cap THEN Ret(vs, c)
       ELSE LET al == Allocate(c, n + 1, af)
                c1 == al[1]
                p  == al[2]
            IN IF Failed(c1) THEN Ret(vs, c1)
               ELSE LET c2 == UninitializedMoveOrCopyN(c1, w.buf, 0, w.size, p, 0)
                    IN IF Failed(c2) THEN Ret(vs, Deallocate(c2, p))
                       ELSE Ret([vs EXCEPT ![v] = Vec(p, n + 1, w.size)],
                                Deallocate(DestroyN(c2, w.buf, 0, w.size), w.buf))

\* Vector::Reserve (vector.h:187-195).
Reserve(vs, c, v, n, af) ==
    LET w == vs[v]
    IN IF n <= w.cap THEN Ret(vs, c)
       ELSE LET al == Allocate(c, n, af)
                c1 == al[1]
                p  == al[2]
            IN IF Failed(c1) THEN Ret(vs, c1)
               ELSE LET c2 == UninitializedMoveOrCopyN(c1, w.buf, 0, w.size, p, 0)
                    IN IF Failed(c2) THEN Ret(vs, Deallocate(c2, p))
                       ELSE Ret([vs EXCEPT ![v] = Vec(p, n, w.size)],
                                Deallocate(DestroyN(c2, w.buf, 0, w.size), w.buf))

\* A Resize that shrinks by lowering size_ only.
Resize_NoDestroy(vs, c, v, n, af) ==
    LET w == vs[v]
    IN IF n < w.size
       THEN Ret([vs EXCEPT ![v].size = n], c)
       ELSE LET r == Reserve(vs, c, v, n, af)
            IN IF Failed(r.c) THEN r
               ELSE LET c2 == UninitializedValueConstructN(r.c, r.vs[v].buf, w.size, n - w.size)
                    IN IF Failed(c2) THEN Ret(r.vs, c2)
                       ELSE Ret([r.vs EXCEPT ![v].size = n], c2)

\* Vector::Resize (vector.h:197-205).
Resize(vs, c, v, n, af) ==
    LET w == vs[v]
    IN IF n < w.size
       THEN Ret([vs EXCEPT ![v].size = n], DestroyN(c, w.buf, n, w.size - n))
       ELSE LET r == Reserve(vs, c, v, n, af)
            IN IF Failed(r.c) THEN r
               ELSE LET c2 == UninitializedValueConstructN(r.c, r.vs[v].buf, w.size, n - w.size)
                    IN IF Failed(c2) THEN Ret(r.vs, c2)
                       ELSE Ret([r.vs EXCEPT ![v].size = n], c2)

\* A PopBack that gives up the vacated slot's share of the capacity.
PopBack_ShrinkCap(vs, c, v) ==
    Ret([vs EXCEPT ![v].size = @ - 1, ![v].cap = @ - 1],
        DestroyAt(c, vs[v].buf, vs[v].size - 1))

\* A PopBack that only decrements size_.
PopBack_NoDestroy(vs, c, v) == Ret([vs EXCEPT ![v].size = @ - 1], c)

\* Vector::PopBack (vector.h:220-224).
PopBack(vs, c, v) ==
    Ret([vs EXCEPT ![v].size = @ - 1], DestroyAt(c, vs[v].buf, vs[v].size - 1))

\* The argument of PushBack/EmplaceBack/Insert/Emplace: a value of the
\* caller's own, or a reference to the element at index i of the block at p.
ByValue(x) == [ref |-> FALSE, val |-> x, buf |-> NULL, idx |-> 0]
ByRef(p, i) == [ref |-> TRUE, val |-> ValueInit, buf |-> p, idx |-> i]

\* What T's constructor reads through the argument at the moment it runs.
Deref(c, x) == IF x.ref THEN Slot(c.h, x.buf, x.idx) ELSE x.val

\* A growth policy that makes room for one more element only.
GrowthCapacity_PlusOne(size) == size + 1

\* The capacity of the block a full vector grows into (vector.h:245, 335).
GrowthCapacity(size) == IF size = 0 THEN 1 ELSE size * 2

\* An EmplaceBackImpl that takes a new block as soon as the new element
\* would fill the old one.
EmplaceBackImpl_Eager(vs, c, v, x, kind, af) ==
    LET w   == vs[v]
        can == CanThrow(kind)
    IN IF w.size + 1 < w.cap
       THEN IF Throws(c, can) THEN Ret(vs, Raise(c))
            ELSE Ret([vs EXCEPT ![v].size = @ + 1],
                     Return(ConstructAt(Tick(c, can), w.buf, w.size, Deref(c, x)),
                            w.buf, w.size))
       ELSE LET ncap == GrowthCapacity(w.size)
                al   == Allocate(c, ncap, af)
                c1   == al[1]
                p    == al[2]
            IN IF Failed(c1) THEN Ret(vs, c1)
               ELSE IF Throws(c1, can) THEN Ret(vs, Deallocate(Raise(c1), p))
               ELSE LET c2 == ConstructAt(Tick(c1, can), p, w.size, Deref(c1, x))
                        c3 == UninitializedMoveOrCopyN(c2, w.buf, 0, w.size, p, 0)
                    IN IF Failed(c3)
                       THEN Ret(vs, Deallocate(DestroyAt(c3, p, w.size), p))
                       ELSE Ret([vs EXCEPT ![v] = Vec(p, ncap, w.size + 1)],
                                Return(Deallocate(DestroyN(c3, w.buf, 0, w.size), w.buf),
                                       p, w.size))

\* Vector::EmplaceBackImpl (vector.h:330-348), behind PushBack and EmplaceBack.
EmplaceBackImpl(vs, c, v, x, kind, af) ==
    LET w   == vs[v]
        can == CanThrow(kind)
    IN IF w.size < w.cap
       THEN IF Throws(c, can) THEN Ret(vs, Raise(c))
            ELSE Ret([vs EXCEPT ![v].size = @ + 1],
                     Return(ConstructAt(Tick(c, can), w.buf, w.size, Deref(c, x)),
                            w.buf, w.size))
       ELSE LET ncap == GrowthCapacity(w.size)
                al   == Allocate(c, ncap, af)
                c1   == al[1]
                p    == al[2]
            IN IF Failed(c1) THEN Ret(vs, c1)
               ELSE IF Throws(c1, can) THEN Ret(vs, Deallocate(Raise(c1), p))
               ELSE LET c2 == ConstructAt(Tick(c1, can), p, w.size, Deref(c1, x))
                        c3 == UninitializedMoveOrCopyN(c2, w.buf, 0, w.size, p, 0)
                    IN IF Failed(c3)
                       THEN Ret(vs, Deallocate(DestroyAt(c3, p, w.size), p))
                       ELSE Ret([vs EXCEPT ![v] = Vec(p, ncap, w.size + 1)],
                                Return(Deallocate(DestroyN(c3, w.buf, 0, w.size), w.buf),
                                       p, w.size))

\* A copy assignment that builds a full copy and swaps it in whatever the
\* target's capacity.
CopyAssign_AlwaysRebuild(vs, c, v, o, af) ==
    LET w == vs[v]
    IN IF v = o THEN Ret(vs, c)
       ELSE LET r == CopyConstruct(vs, c, v, o, af)
            IN IF Failed(r.c) THEN Ret(vs, r.c)
               ELSE Ret(r.vs, Deallocate(DestroyN(r.c, w.buf, 0, w.size), w.buf))

\* Vector::operator=(const Vector& rhs) (vector.h:151-172).
CopyAssign(vs, c, v, o, af) ==
    LET w   == vs[v]
        rhs == vs[o]
    IN IF v = o THEN Ret(vs, c)
       ELSE IF rhs.size > w.cap
       THEN \* Vector rhs_copy(rhs); Swap(rhs_copy); then ~rhs_copy on the old block
            LET r == CopyConstruct(vs, c, v, o, af)
            IN IF Failed(r.c) THEN Ret(vs, r.c)
               ELSE Ret(r.vs, Deallocate(DestroyN(r.c, w.buf, 0, w.size), w.buf))
       ELSE IF rhs.size < w.size
       THEN LET c1 == AssignRange(c, rhs.buf, 0, w.buf, 0, rhs.size, 1, FALSE)
            IN IF Failed(c1) THEN Ret(vs, c1)
               ELSE Ret([vs EXCEPT ![v].size = rhs.size],
                        DestroyN(c1, w.buf, rhs.size, w.size - rhs.size))
       ELSE LET c1 == AssignRange(c, rhs.buf, 0, w.buf, 0, w.size, 1, FALSE)
            IN IF Failed(c1) THEN Ret(vs, c1)
               ELSE LET c2 == UninitializedN(c1, rhs.buf, w.size, rhs.size - w.size,
                                             w.buf, w.size, FALSE)
                    IN IF Failed(c2) THEN Ret(vs, c2)
                       ELSE Ret([vs EXCEPT ![v].size = rhs.size], c2)

\* A move assignment that drops the target's block without releasing it.
MoveAssign_NoRelease(vs, c, v, o) ==
    IF v = o THEN Ret(vs, c)
    ELSE Ret([vs EXCEPT ![v] = Vec(vs[o].buf, vs[o].cap, vs[o].size),
                        ![o] = Vec(NULL, 0, 0)], c)

\* Vector::operator=(Vector&& rhs) noexcept (vector.h:174-181) with
\* RawMemory::operator=(RawMemory&&) (vector.h:32-42): the target's block is
\* handed to Deallocate as it is.
MoveAssign(vs, c, v, o) ==
    IF v = o THEN Ret(vs, c)
    ELSE Ret([vs EXCEPT ![v] = Vec(vs[o].buf, vs[o].cap, vs[o].size),
                        ![o] = Vec(NULL, 0, 0)],
             Deallocate(c, vs[v].buf))

\* A no-growth Emplace without the temporary: the argument is read when it is
\* assigned to *pos_it, after the suffix has been shifted.
EmplaceShift_NoTemporary(vs, c, v, pos, x, kind) ==
    LET w   == vs[v]
        mv  == CanThrow("move")
    IN IF Throws(c, mv) THEN Ret(vs, Raise(c))
       ELSE LET c2 == ConstructRange(Tick(c, mv), w.buf, w.size - 1,
                                     w.buf, w.size, 1, TRUE)
                c3 == AssignRange(c2, w.buf, w.size - 2, w.buf, w.size - 1,
                                  w.size - 1 - pos, -1, TRUE)
            IN IF Failed(c3) THEN Ret(vs, DestroyAt(c3, w.buf, w.size))
               ELSE IF Throws(c3, TRUE) THEN Ret(vs, Raise(c3))
               ELSE Ret([vs EXCEPT ![v].size = @ + 1],
                        Return([Tick(c3, TRUE) EXCEPT !.h = Put(@, w.buf, pos, Deref(c3, x)),
                                                      !.asg = @ + 1],
                               w.buf, pos))

\* Vector::Emplace, size_ < Capacity() and pos != end() (vector.h:234-242).
EmplaceShift(vs, c, v, pos, x, kind) ==
    LET w    == vs[v]
        can  == CanThrow(kind)
        copy == Deref(c, x)                                  \* T copy{args}
    IN IF Throws(c, can) THEN Ret(vs, Raise(c))              \* T copy{args} throws
       ELSE LET c1 == Temporary(Tick(c, can))
                mv == CanThrow("move")
            IN IF Throws(c1, mv) THEN Ret(vs, Raise(c1))    \* new (end()) T(std::move(back))
               ELSE LET c2 == ConstructRange(Tick(c1, mv), w.buf, w.size - 1,
                                             w.buf, w.size, 1, TRUE)
                        \* std::move_backward(pos_it, end() - 1, end())
                        c3 == AssignRange(c2, w.buf, w.size - 2, w.buf, w.size - 1,
                                          w.size - 1 - pos, -1, TRUE)
                    IN IF Failed(c3) THEN Ret(vs, DestroyAt(c3, w.buf, w.size))
                       ELSE IF Throws(c3, TRUE) THEN Ret(vs, Raise(c3))  \* *pos_it = std::move(copy)
                       ELSE Ret([vs EXCEPT ![v].size = @ + 1],
                                Return([Tick(c3, TRUE) EXCEPT !.h = Put(@, w.buf, pos, copy),
                                                              !.asg = @ + 1],
                                       w.buf, pos))

\* A growth path of Emplace whose handler for a throwing suffix migration
\* destroys [new_data, new_pos_it) and so leaves the new element alive.
EmplaceGrow_OffByOne(vs, c, v, pos, x, kind, af) ==
    LET w    == vs[v]
        can  == CanThrow(kind)
        ncap == GrowthCapacity(w.size)
        al   == Allocate(c, ncap, af)
        c1   == al[1]
        p    == al[2]
    IN IF Failed(c1) THEN Ret(vs, c1)
       ELSE IF Throws(c1, can) THEN Ret(vs, Deallocate(Raise(c1), p))
       ELSE LET c2 == ConstructAt(Tick(c1, can), p, pos, Deref(c1, x))
                c3 == UninitializedMoveOrCopyN(c2, w.buf, 0, pos, p, 0)
            IN IF Failed(c3) THEN Ret(vs, Deallocate(DestroyAt(c3, p, pos), p))
               ELSE LET c4 == UninitializedMoveOrCopyN(c3, w.buf, pos, w.size - pos, p, pos + 1)
                    IN IF Failed(c4) THEN Ret(vs, Deallocate(DestroyN(c4, p, 0, pos), p))
                       ELSE Ret([vs EXCEPT ![v] = Vec(p, ncap, w.size + 1)],
                                Return(Deallocate(DestroyN(c4, w.buf, 0, w.size), w.buf),
                                       p, pos))

\* Vector::Emplace, size_ == Capacity() (vector.h:245-261).
EmplaceGrow(vs, c, v, pos, x, kind, af) ==
    LET w    == vs[v]
        can  == CanThrow(kind)
        ncap == GrowthCapacity(w.size)
        al   == Allocate(c, ncap, af)
        c1   == al[1]
        p    == al[2]
    IN IF Failed(c1) THEN Ret(vs, c1)
       ELSE IF Throws(c1, can) THEN Ret(vs, Deallocate(Raise(c1), p))
       ELSE LET c2 == ConstructAt(Tick(c1, can), p, pos, Deref(c1, x))
                c3 == UninitializedMoveOrCopyN(c2, w.buf, 0, pos, p, 0)
            IN IF Failed(c3) THEN Ret(vs, Deallocate(DestroyAt(c3, p, pos), p))
               ELSE LET c4 == UninitializedMoveOrCopyN(c3, w.buf, pos, w.size - pos, p, pos + 1)
                    IN IF Failed(c4) THEN Ret(vs, Deallocate(DestroyN(c4, p, 0, pos + 1), p))
                       ELSE Ret([vs EXCEPT ![v] = Vec(p, ncap, w.size + 1)],
                                Return(Deallocate(DestroyN(c4, w.buf, 0, w.size), w.buf),
                                       p, pos))

\* Vector::Emplace (vector.h:226-265), behind Insert too; pos is an index in
\* 0..size.
Emplace(vs, c, v, pos, x, kind, af) ==
    LET w == vs[v]
    IN IF w.size < w.cap
       THEN IF pos = w.size
            THEN IF Throws(c, CanThrow(kind)) THEN Ret(vs, Raise(c))
                 ELSE Ret([vs EXCEPT ![v].size = @ + 1],
                          Return(ConstructAt(Tick(c, CanThrow(kind)), w.buf, w.size,
                                             Deref(c, x)),
                                 w.buf, pos))
            ELSE EmplaceShift(vs, c, v, pos, x, kind)
       ELSE EmplaceGrow(vs, c, v, pos, x, kind, af)

\* An Erase that drops the last element without shifting the suffix left.
Erase_NoShift(vs, c, v, pos) ==
    LET r == PopBack(vs, c, v)
    IN Ret(r.vs, Return(r.c, r.vs[v].buf, pos))

\* Vector::Erase (vector.h:267-276); pos is an index in 0..size-1.
Erase(vs, c, v, pos) ==
    LET w  == vs[v]
        c1 == IF pos # w.size - 1
              THEN AssignRange(c, w.buf, pos + 1, w.buf, pos, w.size - 1 - pos, 1, TRUE)
              ELSE c
    IN IF Failed(c1) THEN Ret(vs, c1)
       ELSE LET r == PopBack(vs, c1, v)                     \* return begin() + diff
            IN Ret(r.vs, Return(r.c, r.vs[v].buf, pos))

\* ------------------------------------------------------------- the calls
Faults == -1..MaxFault
BadAlloc(f) == f = -1

\* The argument of PushBack/Insert: the const T& overload (a copy) when T can
\* be copied, the T&& overload (a move) when it cannot.
ArgKind == IF traits.copyable THEN "copy" ELSE "move"

\* The elements of a vector, as the caller reads them through operator[].
Elems(h, w) == [i \in 1..w.size |-> Slot(h, w.buf, i - 1)]

\* The call `op` on vector v (with vector o as its argument, v itself when it
\* has none) ends with the vectors and the context of r; grow tells whether
\* the call asked operator new for a block.  Of what the call
\* did to elements, the state keeps: net, the objects constructed minus the
\* objects destroyed; touched, whether any element was constructed, assigned
\* or destroyed; lost, whether storage was released or overwritten under a
\* live object; dbl, whether a slot without an object was destroyed; dfree,
\* whether an address holding no block was released.  Of the call itself it
\* keeps: arg, the number passed (n, or the index of pos); src, the index of
\* the element the argument refers to (-1 when it is the caller's own value);
\* it, the iterator a successful call returned.
Call(op, v, o, r, grow, n, x) ==
    /\ vec' = r.vs
    /\ heap' = r.c.h
    /\ last' = [op |-> op, who |-> v, other |-> o,
                res |-> IF r.c.thrown = "none" THEN "ok" ELSE r.c.thrown,
                grow |-> grow,
                net |-> r.c.ctor - r.c.dtor,
                touched |-> r.c.ctor + r.c.dtor + r.c.asg > 0,
                lost |-> r.c.lost > 0, dbl |-> r.c.dbl > 0, dfree |-> r.c.dfree > 0,
                arg |-> n, src |-> IF x.ref THEN x.idx ELSE -1,
                it |-> IF r.c.thrown = "none" THEN r.c.it ELSE [buf |-> NULL, idx |-> 0]]
    /\ UNCHANGED <<traits, env>>

\* A call that takes no number and no element.
Done(op, v, o, r, grow) == Call(op, v, o, r, grow, 0, ByValue(ValueInit))

\* The arguments a caller passes to PushBack/EmplaceBack/Insert/Emplace on
\* vector v: a value of its own or, in a run where callers do so and T can
\* be copied, a const reference to one of v's elements.
Args(v) ==
    {ByValue(x) : x \in Values}
        \cup (IF env.alias /\ traits.copyable
              THEN {ByRef(vec[v].buf, i) : i \in 0..(vec[v].size - 1)}
              ELSE {})

InitEnv(cells, vs, fs, al) ==
    /\ heap = [p \in Addrs |-> <<>>]
    /\ vec = [v \in Vecs |-> NoVector]
    /\ traits \in Traits
    /\ env = [room |-> cells, vecs |-> vs, faults |-> fs, alias |-> al]
    /\ last = [op |-> "none", who |-> "a", other |-> "a", res |-> "ok", grow |-> FALSE,
               net |-> 0, touched |-> FALSE,
               lost |-> FALSE, dbl |-> FALSE, dfree |-> FALSE,
               arg |-> 0, src |-> -1, it |-> [buf |-> NULL, idx |-> 0]]

\* A run whose callers pass values of their own only.
InitWith(cells, vs, fs) == InitEnv(cells, vs, fs, FALSE)

\* One vector, a, on a heap of HeapCells elements, any fault.
Init == InitWith(HeapCells, {"a"}, Faults)

\* Two vectors, a and b, on a heap of PairCells elements, any fault.
InitPair == InitWith(PairCells, Vecs, Faults)

\* Two vectors on a heap of AllocCells elements; the only fault is bad_alloc.
InitAlloc == InitWith(AllocCells, Vecs, {-1, 0})

DoDefaultConstruct ==
    \E v \in env.vecs :
        /\ ~vec[v].alive
        /\ Done("Vector()", v, v, DefaultConstruct(vec, Ctx(heap, 0), v), FALSE)

DoSizeConstruct ==
    \E v \in env.vecs, n \in 0..MaxN, f \in env.faults :
        /\ ~vec[v].alive
        /\ Call("Vector(n)", v, v, SizeConstruct(vec, Ctx(heap, f), v, n, BadAlloc(f)), n > 0,
                n, ByValue(ValueInit))

DoCopyConstruct ==
    \E v \in Vecs, o \in Vecs, f \in env.faults :
        /\ ~vec[v].alive /\ vec[o].alive /\ traits.copyable
        /\ Done("Vector(const&)", v, o, CopyConstruct(vec, Ctx(heap, f), v, o, BadAlloc(f)),
                vec[o].size > 0)

DoMoveConstruct ==
    \E v \in Vecs, o \in Vecs :
        /\ ~vec[v].alive /\ vec[o].alive
        /\ Done("Vector(&&)", v, o, MoveConstruct(vec, Ctx(heap, 0), v, o), FALSE)

DoCopyAssign ==
    \E v \in Vecs, o \in Vecs, f \in env.faults :
        /\ vec[v].alive /\ vec[o].alive /\ traits.copyable
        /\ Done("=(const&)", v, o, CopyAssign(vec, Ctx(heap, f), v, o, BadAlloc(f)),
                v # o /\ vec[o].size > vec[v].cap)

DoMoveAssign ==
    \E v \in Vecs, o \in Vecs :
        /\ vec[v].alive /\ vec[o].alive
        /\ Done("=(&&)", v, o, MoveAssign(vec, Ctx(heap, 0), v, o), FALSE)

DoDestructor ==
    \E v \in Vecs :
        /\ vec[v].alive
        /\ Done("~Vector", v, v, Destructor(vec, Ctx(heap, 0), v), FALSE)

DoSwap ==
    \E v \in Vecs, o \in Vecs :
        /\ vec[v].alive /\ vec[o].alive
        /\ Done("Swap", v, o, Swap(vec, Ctx(heap, 0), v, o), FALSE)

DoReserve ==
    \E v \in Vecs, n \in 0..MaxN, f \in env.faults :
        /\ vec[v].alive
        /\ Call("Reserve", v, v, Reserve(vec, Ctx(heap, f), v, n, BadAlloc(f)), n > vec[v].cap,
                n, ByValue(ValueInit))

DoResize ==
    \E v \in Vecs, n \in 0..MaxN, f \in env.faults :
        /\ vec[v].alive
        /\ Call("Resize", v, v, Resize(vec, Ctx(heap, f), v, n, BadAlloc(f)),
                n >= vec[v].size /\ n > vec[v].cap, n, ByValue(ValueInit))

DoPushBack ==
    \E v \in Vecs, f \in env.faults :
        \E x \in Args(v) :
            /\ vec[v].alive
            /\ Call("PushBack", v, v, EmplaceBackImpl(vec, Ctx(heap, f), v, x, ArgKind, BadAlloc(f)),
                    ~(vec[v].size < vec[v].cap), 0, x)

DoEmplaceBack ==
    \E v \in Vecs, f \in env.faults :
        \E x \in Args(v) :
            /\ vec[v].alive
            /\ Call("EmplaceBack", v, v, EmplaceBackImpl(vec, Ctx(heap, f), v, x, "args", BadAlloc(f)),
                    ~(vec[v].size < vec[v].cap), 0, x)

DoPopBack ==
    \E v \in Vecs :
        /\ vec[v].alive /\ vec[v].size # 0
        /\ Done("PopBack", v, v, PopBack(vec, Ctx(heap, 0), v), FALSE)

DoInsert ==
    \E v \in Vecs, f \in env.faults :
        \E pos \in 0..vec[v].size, x \in Args(v) :
            /\ vec[v].alive
            /\ Call("Insert", v, v, Emplace(vec, Ctx(heap, f), v, pos, x, ArgKind, BadAlloc(f)),
                    ~(vec[v].size < vec[v].cap), pos, x)

DoEmplace ==
    \E v \in Vecs, f \in env.faults :
        \E pos \in 0..vec[v].size, x \in Args(v) :
            /\ vec[v].alive
            /\ Call("Emplace", v, v, Emplace(vec, Ctx(heap, f), v, pos, x, "args", BadAlloc(f)),
                    ~(vec[v].size < vec[v].cap), pos, x)

DoErase ==
    \E v \in Vecs, f \in env.faults \ {-1} :
        \E pos \in 0..(vec[v].size - 1) :
            /\ vec[v].alive
            /\ Call("Erase", v, v, Erase(vec, Ctx(heap, f), v, pos), FALSE,
                    pos, ByValue(ValueInit))

\* Every call.
NextAll ==
    \/ DoDefaultConstruct
    \/ DoSizeConstruct
    \/ DoCopyConstruct
    \/ DoMoveConstruct
    \/ DoCopyAssign
    \/ DoMoveAssign
    \/ DoDestructor
    \/ DoSwap
    \/ DoReserve
    \/ DoResize
    \/ DoPushBack
    \/ DoEmplaceBack
    \/ DoPopBack
    \/ DoInsert
    \/ DoEmplace
    \/ DoErase

\* The calls on one vector.
Next ==
    \/ DoDefaultConstruct
    \/ DoSizeConstruct
    \/ DoDestructor
    \/ DoReserve
    \/ DoResize
    \/ DoPushBack
    \/ DoEmplaceBack
    \/ DoPopBack
    \/ DoInsert
    \/ DoEmplace
    \/ DoErase

Spec == Init /\ [][Next]_vars

\* The calls on two vectors: every way to make, copy, move, swap and destroy
\* a vector, with PushBack and PopBack to fill and drain them.
NextPair ==
    \/ DoDefaultConstruct
    \/ DoSizeConstruct
    \/ DoCopyConstruct
    \/ DoMoveConstruct
    \/ DoCopyAssign
    \/ DoMoveAssign
    \/ DoDestructor
    \/ DoSwap
    \/ DoPushBack
    \/ DoPopBack

SpecPair == InitPair /\ [][NextPair]_vars

\* Every call on two vectors, with allocation failure as the only fault.
SpecAlloc == InitAlloc /\ [][NextAll]_vars

\* An empty vector a, then PushBack calls, then PopBack calls; no fault is
\* injected (operator new still fails when the heap is exhausted).
InitPushPop == InitWith(PushPopCells, {"a"}, {0})

NextPushPop ==
    \/ DoDefaultConstruct
    \/ (last.op # "PopBack" /\ DoPushBack)
    \/ DoPopBack

SpecPushPop == InitPushPop /\ [][NextPushPop]_vars

\* One vector whose callers also pass references to its own elements; the
\* only failure is an exhausted heap.
InitAlias == InitEnv(HeapCells, {"a"}, {0}, TRUE)

SpecAlias == InitAlias /\ [][Next]_vars

\* ------------------------------------------------------------- properties
\* The live slots of w's block are exactly the slots [0, size), and
\* 0 <= size <= capacity.
LivePrefix(h, w) ==
    /\ 0 <= w.size /\ w.size <= w.cap
    /\ \A i \in 0..(w.cap - 1) : IsLive(Slot(h, w.buf, i)) <=> i < w.size

\* The objects living anywhere in the heap.
RECURSIVE SumLive(_, _)
SumLive(h, S) ==
    IF S = {} THEN 0
    ELSE LET p == CHOOSE q \in S : TRUE IN LiveCount(h, p) + SumLive(h, S \ {p})

TotalLive(h) == SumLive(h, Addrs)

\* An element keeps its value or is left moved-from.
KeptOrMovedFrom(old, new) ==
    /\ Len(new) = Len(old)
    /\ \A i \in 1..Len(old) : new[i] = old[i] \/ new[i] = ValueInit

\* C1: after any sequence of operations, failed ones included, every vector
\* has 0 <= size <= capacity and the live slots of its block are exactly the
\* slots [0, size).
C1_LivePrefixAlways ==
    \A v \in Vecs : vec[v].alive => LivePrefix(heap, vec[v])

\* A PushBack/EmplaceBack that needed growth ended with an element operation
\* throwing.
PushGrowThrew(l) == l.op \in {"PushBack", "EmplaceBack"} /\ l.res = "throw" /\ l.grow

\* C2 as stated: when PushBack/EmplaceBack needs growth and an element
\* operation throws (constructing the new element or migrating), the vector
\* keeps its size, capacity, block and element values, and every element
\* constructed in the new block has been destroyed exactly once.
C2_PushGrowthStrong ==
    [][PushGrowThrew(last') =>
        /\ vec' = vec
        /\ Elems(heap', vec'[last'.who]) = Elems(heap, vec[last'.who])
        /\ last'.net = 0 /\ ~last'.lost /\ ~last'.dbl]_vars

\* C2 as amended: the vector keeps its size, capacity and block and the
\* constructions and destructions of the call balance; the element values are
\* kept when the new element's construction throws and when migration copies
\* (T is copy constructible); when T cannot be copied and its move constructor
\* throws during migration, the elements moved before the throw are left
\* moved-from and the others keep their values.
C2_PushGrowthAmended ==
    [][PushGrowThrew(last') =>
        /\ vec' = vec
        /\ last'.net = 0 /\ ~last'.lost /\ ~last'.dbl
        /\ (traits.copyable \/ ~last'.touched) =>
               Elems(heap', vec'[last'.who]) = Elems(heap, vec[last'.who])
        /\ KeptOrMovedFrom(Elems(heap, vec[last'.who]), Elems(heap', vec'[last'.who]))]_vars

\* C2's case: the throw came from migrating at least two elements.
C2_Witness ==
    /\ PushGrowThrew(last) /\ last.touched
    /\ vec[last.who].size >= 2

\* The calls that release or replace a vector's block.
ReleasingOps ==
    {"~Vector", "Reserve", "Resize", "PushBack", "EmplaceBack", "Emplace", "Insert",
     "=(const&)", "=(&&)"}

\* C3: no call releases a block while objects constructed in it are alive:
\* every element of the old block is destroyed exactly once before the block
\* is deallocated.
C3_NoLiveRelease ==
    last.op \in ReleasingOps => ~last.lost /\ ~last.dbl

\* C4: from an empty vector, n PushBack calls then n PopBack calls: each
\* successful PushBack adds one to size and each PopBack takes one off (so n
\* of each end with size 0), no object is ever lost or destroyed twice, and
\* the objects alive in the heap are at all times the size elements of the
\* vector (none once size is back to 0).
C4_PushPopBalanced ==
    [][/\ (last'.op = "PushBack" /\ last'.res = "ok") => vec'["a"].size = vec["a"].size + 1
       /\ (last'.op = "PushBack" /\ last'.res # "ok") => vec'["a"].size = vec["a"].size
       /\ last'.op = "PopBack" => vec'["a"].size = vec["a"].size - 1
       /\ ~last'.lost /\ ~last'.dbl /\ ~last'.dfree
       /\ TotalLive(heap') = vec'["a"].size
       /\ LivePrefix(heap', vec'["a"])]_vars

\* C4's case: pushes that grew the block to 16 slots, then pops down to size 0.
C4_Witness ==
    /\ last.op = "PopBack"
    /\ vec["a"].size = 0 /\ vec["a"].cap = 16

\* A no-growth Insert/Emplace ended with an element operation throwing.
ShiftThrew(l) == l.op \in {"Insert", "Emplace"} /\ l.res = "throw" /\ ~l.grow

\* C5: when an element operation fails in the no-growth path of
\* Insert/Emplace at pos < end after the slot at index size has been
\* move-constructed (during the backward shift or in the final assignment to
\* pos), that slot is destroyed before the failure propagates: size keeps its
\* value and exactly the slots [0, size) are live.
C5_ShiftFailureUnwinds ==
    [][(ShiftThrew(last') /\ LivePrefix(heap, vec[last'.who])) =>
        /\ vec'[last'.who].size = vec[last'.who].size
        /\ LivePrefix(heap', vec'[last'.who])]_vars

\* C6: when operator new fails inside Vector(n), copy construction, Reserve,
\* Resize, PushBack, EmplaceBack, Emplace, Insert or the reallocating branch
\* of copy assignment, every vector keeps its size, capacity, block and
\* element values (the heap is as before the call, and a vector being
\* constructed does not come to exist), and the call has constructed,
\* assigned and destroyed no element.
C6_BadAllocChangesNothing ==
    [][last'.res = "bad_alloc" =>
        /\ last'.op \in {"Vector(n)", "Vector(const&)", "Reserve", "Resize", "PushBack",
                         "EmplaceBack", "Emplace", "Insert", "=(const&)"}
        /\ last'.grow
        /\ vec' = vec
        /\ heap' = heap
        /\ ~last'.touched /\ last'.net = 0]_vars

\* C6's case: the reallocating branch of copy assignment met bad_alloc with
\* elements in the target.
C6_Witness ==
    /\ last.res = "bad_alloc" /\ last.op = "=(const&)"
    /\ vec[last.who].size >= 1

\* A Reserve ended with bad_alloc or with an element operation throwing.
ReserveFailed(l) == l.op = "Reserve" /\ l.res # "ok"

\* C7 as stated: a failed Reserve(n), n > capacity, leaves the vector
\* unchanged: same size, capacity and block, and every element in [0, size)
\* keeps its value, whichever way the elements are migrated.
C7_ReserveStrong ==
    [][ReserveFailed(last') =>
        /\ vec' = vec
        /\ Elems(heap', vec'[last'.who]) = Elems(heap, vec[last'.who])]_vars

\* C7 as amended: a failed Reserve(n) leaves size, capacity and block
\* unchanged, destroys every object it built in the new block and loses none;
\* every element keeps its value when the allocation fails and when migration
\* copies (T is copy constructible and its move constructor can throw;
\* migration moves when the move constructor cannot throw, and then cannot
\* fail); when T cannot be copied and its move constructor throws during
\* migration, the elements moved before the throw are left moved-from.
C7_ReserveAmended ==
    [][ReserveFailed(last') =>
        /\ last'.grow
        /\ vec' = vec
        /\ last'.net = 0 /\ ~last'.lost /\ ~last'.dbl
        /\ (traits.copyable \/ last'.res = "bad_alloc") => heap' = heap
        /\ last'.res = "throw" => ~traits.nothrowMove
        /\ KeptOrMovedFrom(Elems(heap, vec[last'.who]), Elems(heap', vec'[last'.who]))]_vars

\* C7's case: migration threw after the first element had been migrated, the
\* migration being by copy.
C7_Witness ==
    /\ last.op = "Reserve" /\ last.res = "throw" /\ last.touched
    /\ traits.copyable
    /\ vec[last.who].size >= 2

\* An Insert/Emplace that needed growth ended with an element operation
\* throwing.
EmplaceGrowThrew(l) == l.op \in {"Insert", "Emplace"} /\ l.res = "throw" /\ l.grow

\* C8 as stated: in the growth path of Emplace/Insert a failure while
\* constructing the new element or migrating the prefix or the suffix leaves
\* the vector with its size, capacity, block and element values, and every
\* element built in the new block is destroyed exactly once before the block
\* is released.
C8_EmplaceGrowthStrong ==
    [][EmplaceGrowThrew(last') =>
        /\ vec' = vec
        /\ Elems(heap', vec'[last'.who]) = Elems(heap, vec[last'.who])
        /\ last'.net = 0 /\ ~last'.lost /\ ~last'.dbl]_vars

\* C8 as amended: size, capacity and block are kept and every element built
\* in the new block is destroyed exactly once before the block is released;
\* the element values are kept when the new element's construction throws and
\* when migration copies (T is copy constructible); when T cannot be copied
\* and its move constructor throws during migration, the elements moved
\* before the throw are left moved-from.
C8_EmplaceGrowthAmended ==
    [][EmplaceGrowThrew(last') =>
        /\ vec' = vec
        /\ last'.net = 0 /\ ~last'.lost /\ ~last'.dbl
        /\ (traits.copyable \/ ~last'.touched) => heap' = heap
        /\ KeptOrMovedFrom(Elems(heap, vec[last'.who]), Elems(heap', vec'[last'.who]))]_vars

\* C8's case: the throw came after the new element was built, from a vector
\* of two elements (a prefix and a suffix can both be non-empty).
C8_Witness ==
    /\ EmplaceGrowThrew(last) /\ last.touched
    /\ vec[last.who].size = 2 /\ vec[last.who].cap = 2

\* A move construction, or a move assignment from a distinct vector.
Moved(l) == l.op = "Vector(&&)" \/ (l.op = "=(&&)" /\ l.who # l.other)

\* C9: after move construction, or move assignment from a distinct vector,
\* the source is an empty vector (size 0, capacity 0, null block) and the
\* target has the source's block, capacity, size and element values; the
\* call constructs, assigns and destroys no element and leaves the block's
\* contents as they were; and no later call on either vector destroys a slot
\* twice or releases a block twice.
C9_MoveSteals ==
    [][/\ Moved(last') =>
            /\ vec'[last'.who] = Vec(vec[last'.other].buf, vec[last'.other].cap,
                                     vec[last'.other].size)
            /\ Elems(heap', vec'[last'.who]) = Elems(heap, vec[last'.other])
            /\ vec'[last'.other] = Vec(NULL, 0, 0)
            /\ LivePrefix(heap', vec'[last'.other])
            /\ \A p \in Addrs : p = vec[last'.other].buf => heap'[p] = heap[p]
            /\ ~last'.touched
       /\ ~last'.dbl /\ ~last'.dfree]_vars

\* C9's case: a move assignment from a distinct vector holding two elements.
C9_Witness ==
    /\ last.op = "=(&&)" /\ last.who # last.other
    /\ vec[last.who].size = 2 /\ vec[last.other].alive

\* The slots of the block a vector holds (none for the null block).
Block(h, w) == IF w.buf \in Addrs THEN h[w.buf] ELSE <<>>

\* C10: a copy-constructed vector has the source's size, a capacity equal to
\* that size and the source's elements, in a block of its own (two vectors
\* never hold the same block); a call on one vector that does not take the
\* other as its argument leaves the other's size, capacity, block and slots
\* unchanged, and a copy leaves its source unchanged.
C10_CopyIsIndependent ==
    [][/\ (last'.op = "Vector(const&)" /\ last'.res = "ok") =>
            /\ vec'[last'.who].size = vec[last'.other].size
            /\ vec'[last'.who].cap = vec[last'.other].size
            /\ Elems(heap', vec'[last'.who]) = Elems(heap, vec[last'.other])
       /\ \A u \in Vecs, w \in Vecs :
            (u # w /\ vec'[u].alive /\ vec'[w].alive /\ vec'[u].buf # NULL)
                => vec'[u].buf # vec'[w].buf
       /\ \A u \in Vecs :
            (u # last'.who /\ (u # last'.other \/ last'.op \in {"Vector(const&)", "=(const&)"}))
                => vec'[u] = vec[u] /\ Block(heap', vec'[u]) = Block(heap, vec[u])]_vars

\* C10's case: a two-element vector has just been copy-constructed into a
\* second vector; both are alive, with two elements each, in distinct blocks.
C10_Witness ==
    /\ last.op = "Vector(const&)" /\ last.res = "ok" /\ last.who # last.other
    /\ vec[last.who].alive /\ vec[last.other].alive
    /\ vec[last.who].size = 2 /\ vec[last.who].cap = 2
    /\ vec[last.other].size = 2
    /\ vec[last.who].buf \in Addrs /\ vec[last.who].buf # vec[last.other].buf

\* The sequence s with x put in front of its element at 0-based index p.
InsertAt(s, p, x) ==
    [i \in 1..(Len(s) + 1) |-> IF i <= p THEN s[i] ELSE IF i = p + 1 THEN x ELSE s[i - 1]]

\* The sequence s without its element at 0-based index p.
RemoveAt(s, p) ==
    [i \in 1..(Len(s) - 1) |-> IF i <= p THEN s[i] ELSE s[i + 1]]

\* The values a call may have been given: the element it referred to, or one
\* of the caller's own.
Given(l, old) == IF l.src >= 0 THEN {old[l.src + 1]} ELSE Values

\* begin() + p of vector w.
IterAt(w, p) == [buf |-> w.buf, idx |-> p]

\* C11: a successful Insert/Emplace of x at index p of a vector of size n
\* gives size n + 1, elements [0, p) as before, x at p and every former
\* element i >= p at i + 1, with or without growth, and returns begin() + p;
\* an Erase at p right after it succeeds, restores the size and the element
\* sequence and returns begin() + p; and every successful Erase at p removes
\* exactly the element at p and returns begin() + p.
C11_InsertEraseInverse ==
    [][LET v   == last'.who
           p   == last'.arg
           old == Elems(heap, vec[v])
           new == Elems(heap', vec'[v])
       IN /\ (last'.op \in {"Insert", "Emplace"} /\ last'.res = "ok") =>
                /\ vec'[v].size = vec[v].size + 1
                /\ \E x \in Given(last', old) : new = InsertAt(old, p, x)
                /\ last'.it = IterAt(vec'[v], p)
                /\ LET r == Erase(vec', Ctx(heap', 0), v, p)
                   IN /\ ~Failed(r.c)
                      /\ r.vs[v].size = vec[v].size
                      /\ Elems(r.c.h, r.vs[v]) = old
                      /\ r.c.it = IterAt(r.vs[v], p)
          /\ (last'.op = "Erase" /\ last'.res = "ok") =>
                /\ vec'[v].size = vec[v].size - 1
                /\ new = RemoveAt(old, p)
                /\ last'.it = IterAt(vec'[v], p)]_vars

\* C11's case: an Insert in the middle of a full two-element vector (growth
\* path) has succeeded.
C11_Witness ==
    /\ last.op = "Insert" /\ last.res = "ok" /\ last.grow /\ last.arg = 1
    /\ vec[last.who].size = 3 /\ vec[last.who].cap = 4

\* The block, the capacity and the slots [0, size) of w are in h2/w2 what
\* they were in h/w: no element of w has changed its address or its value.
SameBlock(h, w, h2, w2) ==
    /\ w2.buf = w.buf /\ w2.cap = w.cap
    /\ \A i \in 0..(w.size - 1) : Slot(h2, w.buf, i) = Slot(h, w.buf, i)

\* Every run of k PushBack/EmplaceBack calls on v from (vs, h) succeeds
\* and keeps v's block, capacity and elements where they are.  A PushBack
\* and an EmplaceBack of the same value end in the same vectors and heap, so
\* the runs are followed through PushBack.
RECURSIVE PushesKeepBlock(_, _, _, _)
PushesKeepBlock(vs, h, v, k) ==
    k <= 0 \/
    \A x \in Values :
        LET r == EmplaceBackImpl(vs, Ctx(h, 0), v, ByValue(x), ArgKind, FALSE)
            e == EmplaceBackImpl(vs, Ctx(h, 0), v, ByValue(x), "args", FALSE)
        IN /\ ~Failed(r.c)
           /\ r.vs[v].size = vs[v].size + 1
           /\ SameBlock(h, vs[v], r.c.h, r.vs[v])
           /\ e.vs = r.vs /\ e.c.h = r.c.h
           /\ PushesKeepBlock(r.vs, r.c.h, v, k - 1)

\* C12: after a successful Reserve(n), PushBack/EmplaceBack calls that take
\* the size up to n never reallocate: capacity, block address and the
\* existing elements stay where Reserve left them.  In every state, a
\* PushBack/EmplaceBack called with size < capacity keeps the block whether
\* it succeeds or fails, and one that ends with another block was called
\* with size == capacity.
C12_NoReallocWithinReserve ==
    [][LET v == last'.who
       IN /\ (last'.op = "Reserve" /\ last'.res = "ok") =>
                /\ vec'[v].cap >= last'.arg
                /\ PushesKeepBlock(vec', heap', v, last'.arg - vec'[v].size)
          /\ last'.op \in {"PushBack", "EmplaceBack"} =>
                /\ vec[v].size < vec[v].cap => SameBlock(heap, vec[v], heap', vec'[v])
                /\ vec'[v].buf # vec[v].buf => vec[v].size = vec[v].cap]_vars

\* C12's case: Reserve(3) has given a one-element vector a block of three,
\* leaving room for two pushes.
C12_Witness ==
    /\ last.op = "Reserve" /\ last.res = "ok" /\ last.grow /\ last.arg = 3
    /\ vec[last.who].size = 1 /\ vec[last.who].cap = 3

\* The larger of two numbers.
Max(a, b) == IF a >= b THEN a ELSE b

\* C13: a successful PushBack, EmplaceBack, Emplace or Insert called with
\* size == capacity leaves capacity equal to max(1, 2 * old capacity).
C13_GrowthDoubles ==
    [][(/\ last'.op \in {"PushBack", "EmplaceBack", "Emplace", "Insert"}
        /\ last'.res = "ok"
        /\ vec[last'.who].size = vec[last'.who].cap)
            => vec'[last'.who].cap = Max(1, 2 * vec[last'.who].cap)]_vars

\* C13's case: an Emplace into a full two-slot vector has grown it.
C13_Witness ==
    /\ last.op = "Emplace" /\ last.res = "ok" /\ last.grow
    /\ vec[last.who].size = 3 /\ vec[last.who].cap = 4

\* C14: a successful copy assignment a = b between distinct vectors leaves a
\* with b's size and elements and b as it was.  When b's size exceeds a's
\* capacity, a ends in another block whose capacity is b's size, and a
\* failure leaves a and its block as they were; otherwise a keeps its block
\* and capacity, ends with live objects in exactly [0, b's size), and the
\* call constructs or destroys exactly the difference of the sizes.
\* Self-assignment changes nothing.
C14_CopyAssign ==
    [][last'.op = "=(const&)" =>
         LET v   == last'.who
             o   == last'.other
             w   == vec[v]
             rhs == vec[o]
         IN /\ v = o => vec' = vec /\ heap' = heap /\ ~last'.touched
            /\ (v # o /\ last'.res = "ok") =>
                  /\ vec'[v].size = rhs.size
                  /\ Elems(heap', vec'[v]) = Elems(heap, rhs)
                  /\ vec'[o] = rhs /\ Block(heap', vec'[o]) = Block(heap, rhs)
                  /\ LivePrefix(heap', vec'[v])
                  /\ last'.net = rhs.size - w.size
            /\ (v # o /\ rhs.size > w.cap) =>
                  IF last'.res = "ok"
                  THEN /\ vec'[v].cap = rhs.size
                       /\ vec'[v].buf \in Addrs /\ vec'[v].buf # w.buf
                  ELSE /\ vec'[v] = w /\ Block(heap', w) = Block(heap, w)
                       /\ last'.net = 0
            /\ (v # o /\ rhs.size <= w.cap /\ last'.res = "ok") =>
                  /\ vec'[v].buf = w.buf /\ vec'[v].cap = w.cap]_vars

\* C14's case: a one-element vector with room for two has been assigned a
\* two-element vector in place.
C14_Witness ==
    /\ last.op = "=(const&)" /\ last.res = "ok" /\ last.who # last.other
    /\ ~last.grow /\ last.net = 1
    /\ vec[last.who].size = 2 /\ vec[last.who].cap = 2

\* C15: when Resize(n), n > size, fails while value-constructing the new tail
\* (the exception comes after Reserve(n) has done its part, so capacity is at
\* least n), size is what it was, the elements in [0, size) hold their
\* pre-call values, and no object the call constructed is left alive:
\* constructions and destructions balance, nothing is destroyed twice, and a
\* slot at or past size holds an object only if it did before the call.
C15_ResizeTailFailure ==
    [][LET v == last'.who
           w == vec[v]
       IN (/\ last'.op = "Resize" /\ last'.res = "throw"
           /\ last'.arg > w.size /\ vec'[v].cap >= last'.arg)
            => /\ vec'[v].size = w.size
               /\ Elems(heap', vec'[v]) = Elems(heap, w)
               /\ last'.net = 0 /\ ~last'.dbl
               /\ \A i \in w.size..(vec'[v].cap - 1) :
                     IsLive(Slot(heap', vec'[v].buf, i))
                        => vec'[v].buf = w.buf /\ IsLive(Slot(heap, w.buf, i))]_vars

\* C15's case: Resize(3) on a one-element vector took a block of three and
\* then failed constructing the tail.
C15_Witness ==
    /\ last.op = "Resize" /\ last.res = "throw" /\ last.grow /\ last.arg = 3
    /\ vec[last.who].size = 1 /\ vec[last.who].cap = 3

\* C16: a successful Resize(n) leaves size = n.  For n < size the elements
\* [n, size) are destroyed and the elements [0, n), the block and the
\* capacity are unchanged; for n >= size the elements [0, old size) keep
\* their values, the elements [old size, n) are value-initialized, and the
\* capacity is n if n exceeded it and unchanged otherwise.
C16_ResizeSuccess ==
    [][LET v == last'.who
           n == last'.arg
           w == vec[v]
       IN (last'.op = "Resize" /\ last'.res = "ok") =>
            /\ vec'[v].size = n
            /\ n < w.size =>
                  /\ vec'[v].buf = w.buf /\ vec'[v].cap = w.cap
                  /\ \A i \in 0..(n - 1) : Slot(heap', w.buf, i) = Slot(heap, w.buf, i)
                  /\ \A i \in n..(w.size - 1) : ~IsLive(Slot(heap', w.buf, i))
                  /\ last'.net = n - w.size /\ ~last'.dbl
            /\ n >= w.size =>
                  /\ \A i \in 0..(w.size - 1) :
                        Slot(heap', vec'[v].buf, i) = Slot(heap, w.buf, i)
                  /\ \A i \in w.size..(n - 1) : Slot(heap', vec'[v].buf, i) = ValueInit
                  /\ vec'[v].cap = (IF n > w.cap THEN n ELSE w.cap)]_vars

\* C16's case: a Resize(3) that had to take a new block and construct two
\* elements has succeeded.
C16_Witness ==
    /\ last.op = "Resize" /\ last.res = "ok" /\ last.grow /\ last.arg = 3
    /\ last.net = 2 /\ vec[last.who].size = 3 /\ vec[last.who].cap = 3

\* C17: a successful Reserve(n) leaves capacity >= n and the size and every
\* element value unchanged.  For n <= capacity nothing changes and no
\* element is constructed or destroyed; for n > capacity the capacity is
\* exactly n, the elements are in another block in the same order, the old
\* block is released, and the call destroys as many objects as it
\* constructs (size of each) and none twice.
C17_ReserveSuccess ==
    [][LET v == last'.who
           n == last'.arg
           w == vec[v]
       IN (last'.op = "Reserve" /\ last'.res = "ok") =>
            /\ vec'[v].cap >= n /\ vec'[v].size = w.size
            /\ Elems(heap', vec'[v]) = Elems(heap, w)
            /\ n <= w.cap => vec' = vec /\ heap' = heap /\ ~last'.touched
            /\ n > w.cap =>
                  /\ vec'[v].cap = n
                  /\ vec'[v].buf \in Addrs /\ vec'[v].buf # w.buf
                  /\ w.buf \in Addrs => heap'[w.buf] = <<>>
                  /\ last'.net = 0 /\ ~last'.dbl /\ ~last'.dfree
                  /\ \A i \in 0..(n - 1) :
                        IsLive(Slot(heap', vec'[v].buf, i)) <=> i < w.size]_vars

\* C17's case: Reserve(3) has moved a two-element vector into a block of
\* three.
C17_Witness ==
    /\ last.op = "Reserve" /\ last.res = "ok" /\ last.grow /\ last.arg = 3
    /\ vec[last.who].size = 2 /\ vec[last.who].cap = 3

\* The addresses of the blocks operator new has handed out and operator
\* delete has not taken back.
Allocated(h) == {p \in Addrs : h[p] # <<>>}

\* The non-null addresses held by the RawMemory of some vector.
Owned(vs) == {vs[u].buf : u \in {w \in Vecs : vs[w].alive}} \ {NULL}

\* C18: between calls no two vectors' RawMemory hold the same non-null
\* address; a RawMemory has capacity 0 exactly when its address is null, and
\* a non-null address is that of a block of capacity elements; the blocks
\* allocated are exactly the blocks held (none leaked, none released while
\* held), so none is left once every vector is destroyed; and no call
\* releases an address twice.
C18_ExclusiveOwnership ==
    /\ \A u \in Vecs, w \in Vecs :
          (u # w /\ vec[u].alive /\ vec[w].alive /\ vec[u].buf # NULL)
              => vec[u].buf # vec[w].buf
    /\ \A u \in Vecs :
          /\ vec[u].cap = 0 <=> vec[u].buf = NULL
          /\ vec[u].buf # NULL => Len(heap[vec[u].buf]) = vec[u].cap
    /\ Allocated(heap) = Owned(vec)
    /\ ~last.dfree

\* C18's case: the last vector alive, one with elements, has been destroyed.
C18_Witness ==
    /\ last.op = "~Vector" /\ last.net < 0
    /\ \A u \in Vecs : ~vec[u].alive

\* C19: a successful PushBack(v[i]), Insert(pos, v[i]) or Emplace(pos, v[i])
\* puts at its position (the end for PushBack) an object holding the value
\* v[i] had before the call, and leaves every other element in order around
\* it, with or without growth.
C19_SelfReferenceArgument ==
    [][LET v   == last'.who
           old == Elems(heap, vec[v])
           p   == IF last'.op = "PushBack" THEN vec[v].size ELSE last'.arg
       IN (/\ last'.op \in {"PushBack", "Insert", "Emplace"}
           /\ last'.res = "ok" /\ last'.src >= 0)
            => /\ IsLive(old[last'.src + 1])
               /\ Elems(heap', vec'[v]) = InsertAt(old, p, old[last'.src + 1])]_vars

\* C19's case: Insert(begin(), v[1]) on a full two-element vector whose
\* elements differ has succeeded through the growth path.
C19_Witness ==
    /\ last.op = "Insert" /\ last.res = "ok" /\ last.grow
    /\ last.arg = 0 /\ last.src = 1
    /\ vec[last.who].size = 3
    /\ Slot(heap, vec[last.who].buf, 0) # Slot(heap, vec[last.who].buf, 1)

\* C20: PopBack, Erase, Resize(n) and Reserve(n) with n <= capacity, copy
\* assignment from a source no larger than the capacity, and
\* PushBack/EmplaceBack/Emplace/Insert called with size < capacity leave the
\* vector's capacity and block address as they were, whether they succeed or
\* fail; PopBack also lowers size by exactly 1 and leaves the elements
\* [0, size - 1) as they were.
C20_NoGrowthFrame ==
    [][LET v == last'.who
           w == vec[v]
       IN /\ (\/ last'.op \in {"PopBack", "Erase"}
              \/ last'.op \in {"Resize", "Reserve"} /\ last'.arg <= w.cap
              \/ last'.op = "=(const&)" /\ vec[last'.other].size <= w.cap
              \/ /\ last'.op \in {"PushBack", "EmplaceBack", "Emplace", "Insert"}
                 /\ w.size < w.cap)
                => vec'[v].buf = w.buf /\ vec'[v].cap = w.cap
          /\ last'.op = "PopBack" =>
                /\ vec'[v].size = w.size - 1
                /\ \A i \in 0..(w.size - 2) : Slot(heap', w.buf, i) = Slot(heap, w.buf, i)]_vars

\* C20's case: PopBack has taken the second of two elements.
C20_Witness ==
    /\ last.op = "PopBack"
    /\ vec[last.who].size = 1 /\ vec[last.who].cap = 2
    /\ IsLive(Slot(heap, vec[last.who].buf, 0))

====
